---- MODULE Spec2Model ----
(***************************************************************************)
(* Model of the meal tracker's App component: the virtual day clock        *)
(* (dayOffset, dayCount, lastRealDateStr), the meal and water logs, the    *)
(* goal, and their persistence in localStorage; of the History component   *)
(* (totals per day, average, days shown); and of the AddMeal component     *)
(* with the estimation service it calls.                                   *)
(*                                                                         *)
(* Time is the value of Date.now() in milliseconds.  A calendar-day key    *)
(* ("YYYY-MM-DD") is modelled as the triple <<year, month, day>>, so that  *)
(* equality of keys is equality of the strings the code compares.          *)
(* A step is one handler or callback together with the render and the      *)
(* save effect that follow its state updates.                              *)
(***************************************************************************)
EXTENDS Integers, Sequences, FiniteSets, TLC

VARIABLES
    realNow,          \* Date.now()
    meals,            \* useState<LoggedMeal[]>
    waterLogs,        \* useState<WaterLog[]>
    goal,             \* useState<UserGoal>
    tempGoal,         \* useState<UserGoal> (settings draft)
    dayOffset,        \* useState<number>
    dayCount,         \* useState<number>
    lastRealDateStr,  \* useState<string>
    localStorage,     \* the six snapcalorie_* keys
    renderedWater,    \* the todayWater prop of the last render of App
    history,          \* History: useState viewMode and dateOffset
    timeZone,         \* the host's local time zone (History's Date calls)
    addMeal,          \* AddMeal: its useState values while it is mounted
    requests,         \* estimation requests awaiting their response
    interval          \* ms until the callback of setInterval runs next

\* The state of the History and AddMeal components and their environment.
ui == <<history, timeZone, interval, addMeal, requests>>

vars == <<realNow, meals, waterLogs, goal, tempGoal,
          dayOffset, dayCount, lastRealDateStr, localStorage, renderedWater,
          history, timeZone, interval, addMeal, requests>>

----------------------------------------------------------------------------
(* Bounds of the model *)

MaxSteps == 2      \* number of days real time may advance
MaxOffset == 2     \* cap on pending manual advances
MaxEntries == 1    \* cap on the number of logged meals and water entries
MaxTicks == 4      \* number of milliseconds real time may advance one by one
MaxLogged == 2     \* number of meals in the log when History is opened
MaxBack == 2       \* number of days the daily view may go back
MaxPending == 2    \* cap on the file reads and requests under way

----------------------------------------------------------------------------
(* Program constants *)

GMT_OFFSET_HOURS == 3

\* The period of setInterval(checkDate, 1000).
IntervalMs == 1000

msPerDay == 86400000

DEFAULT_GOAL ==
    [dailyCalories |-> 2200, dailyWater |-> 2500, currentWeight |-> 70,
     targetWeight |-> 70, height |-> 170, age |-> 30, gender |-> "male",
     activityLevel |-> "moderate", goalType |-> "maintain"]

----------------------------------------------------------------------------
(* Inputs of the environment *)

\* Real time starts at 09:00 UTC (12:00 at UTC+3) of 1970-01-01 and moves in
\* steps of one day, each of them across one real civil-day boundary.
StartNow == 9 * 60 * 60 * 1000

TimeStep == 24 * 60 * 60 * 1000

MaxRealNow == StartNow + MaxSteps * TimeStep

\* Results the estimation service may hand to AddMeal's Save button.
Analyses ==
    { [mealName |-> "Salad", items |-> <<[name |-> "Salad", calories |-> 300]>>,
       totalCalories |-> 300,
       macronutrients |-> [protein |-> 10, carbs |-> 20, fat |-> 15],
       confidenceScore |-> 1] }

ImageUrls == {""}

\* Amounts of the three hydration buttons of the Dashboard.
WaterAmounts == {0 - 250, 250, 500}

\* Identifiers: crypto.randomUUID() yields an id no logged entry has.
Ids == 1 .. (MaxEntries + 1)

\* Edits of the settings form: <<field, value>>.
TempGoalEdits == {<<"dailyWater", 3000>>}

----------------------------------------------------------------------------
(* Date bucketing *)

\* The UTC calendar date <<y, m, d>> of the day that lies z days after
\* 1970-01-01 (what Date.prototype.toISOString() prints before the 'T').
CivilFromDays(z) ==
    LET zz  == z + 719468
        era == zz \div 146097
        doe == zz - era * 146097
        yoe == (doe - doe \div 1460 + doe \div 36524 - doe \div 146096) \div 365
        y   == yoe + era * 400
        doy == doe - (365 * yoe + yoe \div 4 - yoe \div 100)
        mp  == (5 * doy + 2) \div 153
        d   == doy - (153 * mp + 2) \div 5 + 1
        m   == IF mp < 10 THEN mp + 3 ELSE mp - 9
    IN  <<IF m <= 2 THEN y + 1 ELSE y, m, d>>

\* new Date(ms).toISOString().split('T')[0]
ISODate(ms) == CivilFromDays(ms \div 86400000)

\* Variant: the offset is taken in minutes instead of hours.
getGMT3DateString_minutes(timestamp) ==
    LET offset == GMT_OFFSET_HOURS * 60 * 1000
    IN  ISODate(timestamp + offset)

getGMT3DateString(timestamp) ==
    LET offset == GMT_OFFSET_HOURS * 60 * 60 * 1000
    IN  ISODate(timestamp + offset)

\* History computes the key with its own copy of the function, from the
\* gmtOffset prop that App sets to GMT_OFFSET_HOURS.
gmtOffset == GMT_OFFSET_HOURS

History_getGMT3DateString(timestamp) ==
    ISODate(timestamp + gmtOffset * 3600 * 1000)

\* The characters of a decimal number, as character codes, left-padded
\* with '0' to `width` places.
RECURSIVE Digits(_, _)
Digits(n, width) ==
    IF n < 10 /\ width <= 1
    THEN <<48 + n>>
    ELSE Append(Digits(n \div 10, width - 1), 48 + (n % 10))

\* Variant: the month and the day are printed without padding.
DateText_unpadded(key) ==
    Digits(key[1], 4) \o <<45>> \o Digits(key[2], 1) \o <<45>>
        \o Digits(key[3], 1)

\* The text of a day key, "YYYY-MM-DD", as character codes: the part of
\* toISOString() before the 'T' (years 0000 to 9999).
DateText(key) ==
    Digits(key[1], 4) \o <<45>> \o Digits(key[2], 2) \o <<45>>
        \o Digits(key[3], 2)

----------------------------------------------------------------------------
(* Persistence *)

\* String(n) for a natural number n: its decimal digits.
RECURSIVE String(_)
String(n) == IF n < 10 THEN <<n>> ELSE Append(String(n \div 10), n % 10)

\* Number(s) for a string of decimal digits (Number("") is 0).
RECURSIVE Number(_)
Number(s) ==
    IF Len(s) = 0 THEN 0
    ELSE Number(SubSeq(s, 1, Len(s) - 1)) * 10 + s[Len(s)]

JSONstringify(v) == <<"json", v>>

JSONparse(s) == s[2]

\* localStorage.getItem yields null (<<>>) or the stored string (<<s>>);
\* `if (saved)` holds for a stored, non-empty string.
Truthy(item) == item # <<>> /\ item[1] # <<>>

EmptyStorage ==
    [snapcalorie_meals |-> <<>>, snapcalorie_water |-> <<>>,
     snapcalorie_goal |-> <<>>, snapcalorie_day_offset |-> <<>>,
     snapcalorie_day_count |-> <<>>, snapcalorie_last_real_date |-> <<>>]

\* The save effect: six setItem calls with the state of the render.
SaveEffect(m, w, g, o, c, l) ==
    [snapcalorie_meals |-> <<JSONstringify(m)>>,
     snapcalorie_water |-> <<JSONstringify(w)>>,
     snapcalorie_goal |-> <<JSONstringify(g)>>,
     snapcalorie_day_offset |-> <<String(o)>>,
     snapcalorie_day_count |-> <<String(c)>>,
     snapcalorie_last_real_date |-> <<l>>]

\* { ...a, ...b }
Spread(a, b) ==
    [f \in DOMAIN a \cup DOMAIN b |-> IF f \in DOMAIN b THEN b[f] ELSE a[f]]

\* The load effect's result for each piece of state: the saved value when
\* the key holds one, else the useState default.
LoadMeals(st) ==
    IF Truthy(st.snapcalorie_meals)
    THEN JSONparse(st.snapcalorie_meals[1]) ELSE <<>>

LoadWater(st) ==
    IF Truthy(st.snapcalorie_water)
    THEN JSONparse(st.snapcalorie_water[1]) ELSE <<>>

LoadGoal(st) ==
    IF Truthy(st.snapcalorie_goal)
    THEN Spread(DEFAULT_GOAL, JSONparse(st.snapcalorie_goal[1]))
    ELSE DEFAULT_GOAL

LoadDayOffset(st) ==
    IF Truthy(st.snapcalorie_day_offset)
    THEN Number(st.snapcalorie_day_offset[1]) ELSE 0

\* Variant: useState<number>(0) for dayCount.
LoadDayCount_fromZero(st) ==
    IF Truthy(st.snapcalorie_day_count)
    THEN Number(st.snapcalorie_day_count[1]) ELSE 0

LoadDayCount(st) ==
    IF Truthy(st.snapcalorie_day_count)
    THEN Number(st.snapcalorie_day_count[1]) ELSE 1

LoadLastRealDate(st, now) ==
    IF Truthy(st.snapcalorie_last_real_date)
    THEN st.snapcalorie_last_real_date[1] ELSE getGMT3DateString(now)

----------------------------------------------------------------------------
(* Values derived at render time *)

\* Variant: the timestamp of real time.
getVirtualNow_real == realNow

getVirtualNow == realNow + dayOffset * msPerDay

\* The remainder operator of JavaScript: the result has the sign of a.
JsRem(a, b) == IF a >= 0 THEN a % b ELSE 0 - ((0 - a) % b)

\* Variant: the function starts from the virtual time.
getRealGMT3NextMidnight_virtual ==
    LET gmt3OffsetMs   == GMT_OFFSET_HOURS * 3600 * 1000
        now            == getVirtualNow
        timeWithOffset == now + gmt3OffsetMs
        startOfDay     == timeWithOffset - JsRem(timeWithOffset, msPerDay)
        startOfDayUTC  == startOfDay - gmt3OffsetMs
    IN  startOfDayUTC + msPerDay

\* The nextMidnight prop of Dashboard, computed from Date.now().
getRealGMT3NextMidnight ==
    LET gmt3OffsetMs   == GMT_OFFSET_HOURS * 3600 * 1000
        now            == realNow
        timeWithOffset == now + gmt3OffsetMs
        startOfDay     == timeWithOffset - JsRem(timeWithOffset, msPerDay)
        startOfDayUTC  == startOfDay - gmt3OffsetMs
    IN  startOfDayUTC + msPerDay

currentVirtualDateStr == getGMT3DateString(getVirtualNow)

\* The filters of a render whose current virtual date is `today`.
MealsOn(ms, today) ==
    LET Today(m) == getGMT3DateString(m.timestamp) = today
    IN  SelectSeq(ms, Today)

RECURSIVE SumAmounts(_)
SumAmounts(s) ==
    IF s = <<>> THEN 0 ELSE Head(s).amount + SumAmounts(Tail(s))

WaterOn(ws, today) ==
    LET Today(w) == getGMT3DateString(w.timestamp) = today
    IN  SumAmounts(SelectSeq(ws, Today))

todayMeals == MealsOn(meals, currentVirtualDateStr)

todayWater == WaterOn(waterLogs, currentVirtualDateStr)

UsedIds == {meals[i].id : i \in 1 .. Len(meals)}
             \cup {waterLogs[i].id : i \in 1 .. Len(waterLogs)}

\* The fresh id of a new entry; which fresh id it is makes no difference,
\* as ids are only compared for equality.
randomUUID ==
    CHOOSE id \in Ids \ UsedIds : \A other \in Ids \ UsedIds : id <= other

\* A state change makes App render again: the save effect stores the new
\* state and the Dashboard gets the todayWater of that render.
Rerender ==
    /\ localStorage' = SaveEffect(meals', waterLogs', goal', dayOffset',
                                  dayCount', lastRealDateStr')
    /\ renderedWater' =
         WaterOn(waterLogs',
                 getGMT3DateString(realNow' + dayOffset' * msPerDay))

----------------------------------------------------------------------------
(* The reconciliation check of the one-second interval *)

Max(a, b) == IF a >= b THEN a ELSE b

\* Variant: the absorbing branch counts the day as well.
checkDateResult_countsDecay(o, c, l, now) ==
    LET nowStr == getGMT3DateString(now)
    IN  IF nowStr # l
        THEN IF o > 0
             THEN [dayOffset |-> Max(0, o - 1), dayCount |-> c + 1,
                   lastRealDateStr |-> nowStr]
             ELSE [dayOffset |-> o, dayCount |-> c + 1,
                   lastRealDateStr |-> nowStr]
        ELSE [dayOffset |-> o, dayCount |-> c, lastRealDateStr |-> l]

\* Variant: the test is dayOffset >= 0.
checkDateResult_alwaysAbsorbs(o, c, l, now) ==
    LET nowStr == getGMT3DateString(now)
    IN  IF nowStr # l
        THEN IF o >= 0
             THEN [dayOffset |-> Max(0, o - 1), dayCount |-> c,
                   lastRealDateStr |-> nowStr]
             ELSE [dayOffset |-> o, dayCount |-> c + 1,
                   lastRealDateStr |-> nowStr]
        ELSE [dayOffset |-> o, dayCount |-> c, lastRealDateStr |-> l]

\* Variant: setLastRealDateStr is left out.
checkDateResult_keepsDate(o, c, l, now) ==
    LET nowStr == getGMT3DateString(now)
    IN  IF nowStr # l
        THEN IF o > 0
             THEN [dayOffset |-> Max(0, o - 1), dayCount |-> c,
                   lastRealDateStr |-> l]
             ELSE [dayOffset |-> o, dayCount |-> c + 1,
                   lastRealDateStr |-> l]
        ELSE [dayOffset |-> o, dayCount |-> c, lastRealDateStr |-> l]

\* Variant: every new real day takes one off dayOffset, with no test and
\* no floor.
checkDateResult_unguarded(o, c, l, now) ==
    LET nowStr == getGMT3DateString(now)
    IN  IF nowStr # l
        THEN [dayOffset |-> o - 1, dayCount |-> c, lastRealDateStr |-> nowStr]
        ELSE [dayOffset |-> o, dayCount |-> c, lastRealDateStr |-> l]

\* The clock triple that checkDate leaves when it runs at real time `now`
\* in a render whose state is (o, c, l).  The effect re-creates the interval
\* whenever lastRealDateStr or dayOffset changes, so the values the callback
\* closes over are those of the current state.
checkDateResult(o, c, l, now) ==
    LET nowStr == getGMT3DateString(now)
    IN  IF nowStr # l
        THEN IF o > 0
             THEN [dayOffset |-> Max(0, o - 1), dayCount |-> c,
                   lastRealDateStr |-> nowStr]
             ELSE [dayOffset |-> o, dayCount |-> c + 1,
                   lastRealDateStr |-> nowStr]
        ELSE [dayOffset |-> o, dayCount |-> c, lastRealDateStr |-> l]

checkDate ==
    LET r == checkDateResult(dayOffset, dayCount, lastRealDateStr, realNow)
    IN  /\ dayOffset' = r.dayOffset
        /\ dayCount' = r.dayCount
        /\ lastRealDateStr' = r.lastRealDateStr
        /\ UNCHANGED <<realNow, meals, waterLogs, goal, tempGoal>>
        /\ IF r.lastRealDateStr # lastRealDateStr
           THEN Rerender
           ELSE UNCHANGED <<localStorage, renderedWater>>

----------------------------------------------------------------------------
(* Handlers of the App component *)

\* Variant: setDayCount is left out.
handleManualEndDay_noCount ==
    /\ dayOffset < MaxOffset
    /\ dayOffset' = dayOffset + 1
    /\ dayCount' = dayCount
    /\ UNCHANGED <<realNow, meals, waterLogs, goal, tempGoal,
                   lastRealDateStr>>
    /\ Rerender

\* Variant: the real date tracker is moved as well.
handleManualEndDay_movesDate ==
    /\ dayOffset < MaxOffset
    /\ dayOffset' = dayOffset + 1
    /\ dayCount' = dayCount + 1
    /\ lastRealDateStr' = getGMT3DateString(realNow)
    /\ UNCHANGED <<realNow, meals, waterLogs, goal, tempGoal>>
    /\ Rerender

\* Variant: the offset moves by two days.
handleManualEndDay_twoDays ==
    /\ dayOffset < MaxOffset
    /\ dayOffset' = dayOffset + 2
    /\ dayCount' = dayCount + 1
    /\ UNCHANGED <<realNow, meals, waterLogs, goal, tempGoal,
                   lastRealDateStr>>
    /\ Rerender

handleManualEndDay ==
    /\ dayOffset < MaxOffset
    /\ dayOffset' = dayOffset + 1
    /\ dayCount' = dayCount + 1
    /\ UNCHANGED <<realNow, meals, waterLogs, goal, tempGoal,
                   lastRealDateStr>>
    /\ Rerender

\* Variant: setLastRealDateStr is left out.
resetDayCounter_keepsDate ==
    /\ dayCount' = 1
    /\ dayOffset' = 0
    /\ UNCHANGED <<realNow, meals, waterLogs, goal, tempGoal,
                   lastRealDateStr>>
    /\ Rerender

\* Variant: the counter restarts at 0.
resetDayCounter_fromZero ==
    /\ dayCount' = 0
    /\ dayOffset' = 0
    /\ lastRealDateStr' = getGMT3DateString(realNow)
    /\ UNCHANGED <<realNow, meals, waterLogs, goal, tempGoal>>
    /\ Rerender

resetDayCounter ==
    /\ dayCount' = 1
    /\ dayOffset' = 0
    /\ lastRealDateStr' = getGMT3DateString(realNow)
    /\ UNCHANGED <<realNow, meals, waterLogs, goal, tempGoal>>
    /\ Rerender

newMeal(analysis, id, imageUrl) ==
    Spread(analysis,
           [id |-> id, timestamp |-> getVirtualNow, imageUrl |-> imageUrl])

handleSaveMeal(analysis, imageUrl) ==
    /\ Len(meals) + Len(waterLogs) < MaxEntries
    /\ meals' = <<newMeal(analysis, randomUUID, imageUrl)>> \o meals
    /\ UNCHANGED <<realNow, waterLogs, goal, tempGoal, dayOffset, dayCount,
                   lastRealDateStr>>
    /\ Rerender

\* Variant: the filter keeps the meals that have the id.
handleDeleteMeal_keepsMatch(id) ==
    /\ LET Keep(m) == m.id = id
       IN  meals' = SelectSeq(meals, Keep)
    /\ UNCHANGED <<realNow, waterLogs, goal, tempGoal, dayOffset,
                   dayCount, lastRealDateStr>>
    /\ Rerender

handleDeleteMeal(id) ==
    /\ LET Keep(m) == m.id # id
       IN  meals' = SelectSeq(meals, Keep)
    /\ UNCHANGED <<realNow, waterLogs, goal, tempGoal, dayOffset,
                   dayCount, lastRealDateStr>>
    /\ Rerender

newLog(amount, id) ==
    [id |-> id, timestamp |-> getVirtualNow, amount |-> amount]

\* handleAddWater while the logs hold fewer than cap entries.  The -250
\* button is disabled when the todayWater of the last render is not above 0.
handleAddWaterWithin(cap, amount) ==
    /\ amount < 0 => renderedWater > 0
    /\ Len(meals) + Len(waterLogs) < cap
    /\ waterLogs' = Append(waterLogs, newLog(amount, randomUUID))
    /\ UNCHANGED <<realNow, meals, goal, tempGoal, dayOffset,
                   dayCount, lastRealDateStr>>
    /\ Rerender

handleAddWater(amount) == handleAddWaterWithin(MaxEntries, amount)

setTempGoal(field, value) ==
    /\ tempGoal' = [tempGoal EXCEPT ![field] = value]
    /\ UNCHANGED <<realNow, meals, waterLogs, goal, dayOffset, dayCount,
                   lastRealDateStr>>
    /\ Rerender

\* Variant: only the energy target of the draft is taken over.
saveSettings_caloriesOnly ==
    /\ goal' = [goal EXCEPT !.dailyCalories = tempGoal.dailyCalories]
    /\ UNCHANGED <<realNow, meals, waterLogs, tempGoal, dayOffset,
                   dayCount, lastRealDateStr>>
    /\ Rerender

saveSettings ==
    /\ goal' = tempGoal
    /\ UNCHANGED <<realNow, meals, waterLogs, tempGoal, dayOffset,
                   dayCount, lastRealDateStr>>
    /\ Rerender

\* Navigation between the views (the view itself is not modelled: every
\* handler can be reached from every state by navigating first).
setCurrentView ==
    /\ UNCHANGED <<realNow, meals, waterLogs, goal, tempGoal, dayOffset,
                   dayCount, lastRealDateStr>>
    /\ Rerender

----------------------------------------------------------------------------
(* Start of the app: useState defaults, the load effect, the save effect *)

\* Variant: the save effect is declared before the load effect, so that on
\* mount it has stored the useState defaults when the load effect reads.
storageAtLoad_afterSave ==
    SaveEffect(<<>>, <<>>, DEFAULT_GOAL, 0, 1, getGMT3DateString(realNow))

\* What the load effect reads on mount.  The effects of the first commit
\* run in the order of their declaration: the load effect reads the keys
\* before the save effect stores the useState defaults.
storageAtLoad == localStorage

\* The app is closed and started again: the first render with the useState
\* defaults, the load effect and the save effect of that render, then the
\* render with the loaded state and its save effect.
Mount ==
    /\ meals' = LoadMeals(storageAtLoad)
    /\ waterLogs' = LoadWater(storageAtLoad)
    /\ goal' = LoadGoal(storageAtLoad)
    /\ tempGoal' = LoadGoal(storageAtLoad)
    /\ dayOffset' = LoadDayOffset(storageAtLoad)
    /\ dayCount' = LoadDayCount(storageAtLoad)
    /\ lastRealDateStr' = LoadLastRealDate(storageAtLoad, realNow)
    /\ UNCHANGED realNow
    /\ Rerender

\* Real time passes; no timer callback runs (the app is closed, or the
\* device sleeps).
AdvanceTime ==
    /\ realNow + TimeStep <= MaxRealNow
    /\ realNow' = realNow + TimeStep
    /\ UNCHANGED <<meals, waterLogs, goal, tempGoal, dayOffset, dayCount,
                   lastRealDateStr, localStorage, renderedWater>>

----------------------------------------------------------------------------
(* The components below App, as they are when App is first rendered *)

\* null, and a value that may be null: <<>> or <<value>>.
null == <<>>

\* History's useState defaults.
HistoryInit == [viewMode |-> "daily", dateOffset |-> 0]

\* AddMeal's useState defaults; `mounted` tells whether App's current view
\* is the one that renders AddMeal.
AddMealState(mounted) ==
    [mounted |-> mounted, mode |-> "camera", imagePreview |-> null,
     textInput |-> "", isAnalyzing |-> FALSE, analysis |-> null]

UiInit ==
    /\ history = HistoryInit
    /\ timeZone = "UTC"
    /\ interval = IntervalMs
    /\ addMeal = AddMealState(FALSE)
    /\ requests = <<>>

----------------------------------------------------------------------------
(* The app from its first run *)

Init ==
    /\ realNow = StartNow
    /\ meals = LoadMeals(EmptyStorage)
    /\ waterLogs = LoadWater(EmptyStorage)
    /\ goal = LoadGoal(EmptyStorage)
    /\ tempGoal = LoadGoal(EmptyStorage)
    /\ dayOffset = LoadDayOffset(EmptyStorage)
    /\ dayCount = LoadDayCount(EmptyStorage)
    /\ lastRealDateStr = LoadLastRealDate(EmptyStorage, StartNow)
    /\ localStorage = SaveEffect(meals, waterLogs, goal, dayOffset, dayCount,
                                 lastRealDateStr)
    /\ renderedWater = todayWater
    /\ UiInit

Next ==
    \/ checkDate /\ UNCHANGED ui
    \/ handleManualEndDay /\ UNCHANGED ui
    \/ resetDayCounter /\ UNCHANGED ui
    \/ \E a \in Analyses, u \in ImageUrls :
          handleSaveMeal(a, u) /\ UNCHANGED ui
    \/ \E id \in Ids : handleDeleteMeal(id) /\ UNCHANGED ui
    \/ \E amount \in WaterAmounts : handleAddWater(amount) /\ UNCHANGED ui
    \/ \E e \in TempGoalEdits : setTempGoal(e[1], e[2]) /\ UNCHANGED ui
    \/ saveSettings /\ UNCHANGED ui
    \/ setCurrentView /\ UNCHANGED ui
    \/ Mount /\ UNCHANGED ui
    \/ AdvanceTime /\ UNCHANGED ui

Spec == Init /\ [][Next]_vars

----------------------------------------------------------------------------
(* The app kept open after DecayOffset manual advances on its first day:  *)
(* the interval runs checkDate at every real civil-day boundary.           *)

DecayOffset == MaxOffset + 1

DecayEnd == StartNow + (DecayOffset + 1) * TimeStep

\* The state that DecayOffset calls of handleManualEndDay leave after Init.
InitDecay ==
    /\ realNow = StartNow
    /\ meals = <<>>
    /\ waterLogs = <<>>
    /\ goal = DEFAULT_GOAL
    /\ tempGoal = DEFAULT_GOAL
    /\ dayOffset = DecayOffset
    /\ dayCount = 1 + DecayOffset
    /\ lastRealDateStr = getGMT3DateString(StartNow)
    /\ localStorage = SaveEffect(meals, waterLogs, goal, dayOffset, dayCount,
                                 lastRealDateStr)
    /\ renderedWater = todayWater
    /\ UiInit

\* Real time passes while the interval is alive: checkDate has run since
\* the last civil-day boundary.
TickedTime ==
    /\ getGMT3DateString(realNow) = lastRealDateStr
    /\ realNow + TimeStep <= DecayEnd
    /\ realNow' = realNow + TimeStep
    /\ UNCHANGED <<meals, waterLogs, goal, tempGoal, dayOffset, dayCount,
                   lastRealDateStr, localStorage, renderedWater>>

NextDecay ==
    \/ checkDate /\ UNCHANGED ui
    \/ TickedTime /\ UNCHANGED ui
    \/ \E a \in Analyses, u \in ImageUrls :
          handleSaveMeal(a, u) /\ UNCHANGED ui
    \/ \E id \in Ids : handleDeleteMeal(id) /\ UNCHANGED ui
    \/ \E amount \in WaterAmounts : handleAddWater(amount) /\ UNCHANGED ui
    \/ \E e \in TempGoalEdits : setTempGoal(e[1], e[2]) /\ UNCHANGED ui
    \/ saveSettings /\ UNCHANGED ui
    \/ setCurrentView /\ UNCHANGED ui
    \/ Mount /\ UNCHANGED ui

SpecDecay == InitDecay /\ [][NextDecay]_vars

----------------------------------------------------------------------------
(* The app first run two milliseconds before a real civil-day boundary,    *)
(* with real time advancing one millisecond at a time.                     *)

\* 00:00 at UTC+3 of 1970-01-10, in milliseconds since the epoch.
FineBoundary == 9 * msPerDay - GMT_OFFSET_HOURS * 3600 * 1000

FineStart == FineBoundary - 2

InitFine ==
    /\ realNow = FineStart
    /\ meals = LoadMeals(EmptyStorage)
    /\ waterLogs = LoadWater(EmptyStorage)
    /\ goal = LoadGoal(EmptyStorage)
    /\ tempGoal = LoadGoal(EmptyStorage)
    /\ dayOffset = LoadDayOffset(EmptyStorage)
    /\ dayCount = LoadDayCount(EmptyStorage)
    /\ lastRealDateStr = LoadLastRealDate(EmptyStorage, FineStart)
    /\ localStorage = SaveEffect(meals, waterLogs, goal, dayOffset, dayCount,
                                 lastRealDateStr)
    /\ renderedWater = todayWater
    /\ UiInit

\* One millisecond passes.
TickMs ==
    /\ realNow < FineStart + MaxTicks
    /\ realNow' = realNow + 1
    /\ UNCHANGED <<meals, waterLogs, goal, tempGoal, dayOffset, dayCount,
                   lastRealDateStr, localStorage, renderedWater>>

NextFine ==
    \/ TickMs /\ UNCHANGED ui
    \/ checkDate /\ UNCHANGED ui
    \/ handleManualEndDay /\ UNCHANGED ui
    \/ \E a \in Analyses, u \in ImageUrls :
          handleSaveMeal(a, u) /\ UNCHANGED ui
    \/ \E id \in Ids : handleDeleteMeal(id) /\ UNCHANGED ui
    \/ setCurrentView /\ UNCHANGED ui

SpecFine == InitFine /\ [][NextFine]_vars

----------------------------------------------------------------------------
(* Date objects in the host's local time zone (used by History)            *)

\* The host time zones of the model.  "Europe/Berlin" stands for a zone
\* with daylight saving time; the others keep one offset all year.
TimeZones == {"Asia/Riyadh", "America/Bogota", "Europe/Berlin"}

\* Minutes east of UTC in standard (winter) time.
StandardOffset(zone) ==
    CASE zone = "UTC" -> 0
      [] zone = "Asia/Riyadh" -> 180
      [] zone = "America/Bogota" -> 0 - 300
      [] zone = "Europe/Berlin" -> 60

HasDST(zone) == zone = "Europe/Berlin"

\* The instant at which daylight saving time ends in the zones that have
\* it (clocks go back one hour at 01:00 UTC), placed at 1970-01-09.
DstEnd == 8 * msPerDay + 60 * 60 * 1000

\* Local time minus UTC at the instant t, in milliseconds.
UtcOffsetMs(zone, t) ==
    IF HasDST(zone) /\ t < DstEnd
    THEN (StandardOffset(zone) + 60) * 60 * 1000
    ELSE StandardOffset(zone) * 60 * 1000

\* The instant of a local wall-clock time; a local time that occurs twice
\* is taken as the earlier instant (ECMA-262, UTC(t)).
LocalToUTC(zone, local) ==
    LET early == local - (StandardOffset(zone) + 60) * 60 * 1000
    IN  IF HasDST(zone) /\ early < DstEnd
        THEN early
        ELSE local - StandardOffset(zone) * 60 * 1000

\* The number of days from 1970-01-01 to the civil date <<y, m, d>>.
DaysFromCivil(key) ==
    LET y   == IF key[2] <= 2 THEN key[1] - 1 ELSE key[1]
        era == y \div 400
        yoe == y - era * 400
        mp  == IF key[2] > 2 THEN key[2] - 3 ELSE key[2] + 9
        doy == (153 * mp + 2) \div 5 + key[3] - 1
        doe == yoe * 365 + yoe \div 4 - yoe \div 100 + doy
    IN  era * 146097 + doe - 719468

\* new Date("YYYY-MM-DD"): a date-only text is read as 00:00 UTC.
DateParse(key) == DaysFromCivil(key) * 86400000

\* Date.prototype.getDate(): the day of the month in local time.
getDate(t) ==
    CivilFromDays((t + UtcOffsetMs(timeZone, t)) \div 86400000)[3]

\* Date.prototype.setDate(date): the local day of the month is replaced,
\* the local month and time of day are kept; days outside the month carry
\* into the neighbouring months.
setDate(t, date) ==
    LET local == t + UtcOffsetMs(timeZone, t)
        civil == CivilFromDays(local \div 86400000)
        day   == DaysFromCivil(<<civil[1], civil[2], 1>>) + date - 1
    IN  LocalToUTC(timeZone, day * 86400000 + (local % 86400000))

----------------------------------------------------------------------------
(* The totals of the Dashboard component *)

\* todayMeals.reduce((acc, meal) => acc + meal.totalCalories, 0)
RECURSIVE reduceCalories(_)
reduceCalories(ms) ==
    IF ms = <<>> THEN 0
    ELSE reduceCalories(SubSeq(ms, 1, Len(ms) - 1)) + ms[Len(ms)].totalCalories

totalCaloriesConsumed == reduceCalories(todayMeals)

\* todayMeals.reduce(...) of the macronutrient totals.
RECURSIVE reduceMacros(_)
reduceMacros(ms) ==
    IF ms = <<>> THEN [protein |-> 0, carbs |-> 0, fat |-> 0]
    ELSE LET acc  == reduceMacros(SubSeq(ms, 1, Len(ms) - 1))
             meal == ms[Len(ms)]
         IN  [protein |-> acc.protein + meal.macronutrients.protein,
              carbs   |-> acc.carbs + meal.macronutrients.carbs,
              fat     |-> acc.fat + meal.macronutrients.fat]

macros == reduceMacros(todayMeals)

----------------------------------------------------------------------------
(* The History component *)

currentSystemDateStr == currentVirtualDateStr

getTargetDate(offset) ==
    LET baseDate == DateParse(currentSystemDateStr)
    IN  setDate(baseDate, getDate(baseDate) + offset)

currentDate == getTargetDate(history.dateOffset)

currentDateStr == ISODate(currentDate)

ZeroStats == [calories |-> 0, protein |-> 0, carbs |-> 0, fat |-> 0,
              water |-> 0]

\* stats[day] || zeros
StatsAt(stats, day) == IF day \in DOMAIN stats THEN stats[day] ELSE ZeroStats

\* meals.forEach(...) of dailyStats.
RECURSIVE foldMeals(_, _)
foldMeals(stats, ms) ==
    IF ms = <<>> THEN stats
    ELSE LET meal == Head(ms)
             day  == History_getGMT3DateString(meal.timestamp)
             old  == StatsAt(stats, day)
             new  == [calories |-> old.calories + meal.totalCalories,
                      protein  |-> old.protein + meal.macronutrients.protein,
                      carbs    |-> old.carbs + meal.macronutrients.carbs,
                      fat      |-> old.fat + meal.macronutrients.fat,
                      water    |-> old.water]
         IN  foldMeals((day :> new) @@ stats, Tail(ms))

\* waterLogs.forEach(...) of dailyStats.
RECURSIVE foldWater(_, _)
foldWater(stats, ws) ==
    IF ws = <<>> THEN stats
    ELSE LET log == Head(ws)
             day == History_getGMT3DateString(log.timestamp)
             old == StatsAt(stats, day)
         IN  foldWater((day :> [old EXCEPT !.water = @ + log.amount])
                           @@ stats,
                       Tail(ws))

\* Variant: the loop over waterLogs is left out.
dailyStats_mealsOnly == foldMeals(<<>>, meals)

dailyStats == foldWater(foldMeals(<<>>, meals), waterLogs)

\* Variant: Math.floor in place of Math.round.
MathRound_floor(num, den) == num \div den

\* Math.round(num / den) for den > 0: the nearest integer, halves go up.
MathRound(num, den) == (2 * num + den) \div (2 * den)

\* The loop of renderChartView(days), from i down to 0: the running
\* totalCals and daysTracked and the fullDate of the points pushed.
RECURSIVE chartLoop(_, _, _)
chartLoop(byDay, i, acc) ==
    IF i < 0 THEN acc
    ELSE LET dStr  == ISODate(getTargetDate(0 - i))
             stats == StatsAt(byDay, dStr)
             next  == [totalCals |-> IF stats.calories > 0
                                     THEN acc.totalCals + stats.calories
                                     ELSE acc.totalCals,
                       daysTracked |-> IF stats.calories > 0
                                       THEN acc.daysTracked + 1
                                       ELSE acc.daysTracked,
                       data |-> Append(acc.data, dStr)]
         IN  chartLoop(byDay, i - 1, next)

renderChartView(days) ==
    LET loop == chartLoop(dailyStats, days - 1,
                          [totalCals |-> 0, daysTracked |-> 0, data |-> <<>>])
    IN  [data |-> loop.data,
         avgCals |-> IF loop.daysTracked > 0
                     THEN MathRound(loop.totalCals, loop.daysTracked)
                     ELSE 0]

\* The number of days of the chart of a view mode.
ChartDays(viewMode) == IF viewMode = "weekly" THEN 7 ELSE 30

\* The view selector tabs.
setViewMode(mode) ==
    /\ history' = [viewMode |-> mode, dateOffset |-> 0]
    /\ UNCHANGED <<realNow, meals, waterLogs, goal, tempGoal, dayOffset,
                   dayCount, lastRealDateStr, localStorage, renderedWater,
                   timeZone, interval, addMeal, requests>>

\* The three buttons of the date navigator of the daily view.
setDateOffset ==
    /\ history.viewMode = "daily"
    /\ \/ /\ history.dateOffset > 0 - MaxBack
          /\ history' = [history EXCEPT !.dateOffset = @ - 1]
       \/ /\ history.dateOffset # 0
          /\ history' = [history EXCEPT !.dateOffset = @ + 1]
       \/ /\ history.dateOffset # 0
          /\ history' = [history EXCEPT !.dateOffset = 0]
    /\ UNCHANGED <<realNow, meals, waterLogs, goal, tempGoal, dayOffset,
                   dayCount, lastRealDateStr, localStorage, renderedWater,
                   timeZone, interval, addMeal, requests>>

\* The delete button of a meal shown by the daily view.
History_onDelete ==
    /\ history.viewMode = "daily"
    /\ \E i \in 1 .. Len(meals) :
          /\ History_getGMT3DateString(meals[i].timestamp) = currentDateStr
          /\ handleDeleteMeal(meals[i].id)
    /\ UNCHANGED ui

----------------------------------------------------------------------------
(* History opened on 1970-01-10 (real time) over a log written earlier *)

HistoryNow == FineBoundary + 12 * 60 * 60 * 1000

\* Virtual times at which the entries of the log were written: today at
\* noon, the last millisecond of yesterday, and noon six days ago.
LoggedAt == {HistoryNow, FineBoundary - 1, HistoryNow - 6 * msPerDay}

LoggedAnalyses ==
    Analyses \cup
    { [mealName |-> "Kebab", items |-> <<[name |-> "Kebab", calories |-> 455]>>,
       totalCalories |-> 455,
       macronutrients |-> [protein |-> 30, carbs |-> 40, fat |-> 19],
       confidenceScore |-> 1] }

\* The logs that n calls of handleSaveMeal build: the newest meal first,
\* each with an id of its own.
LoggedMeals(n) ==
    { [i \in 1 .. n |->
          Spread(f[i][1], [id |-> n + 1 - i, timestamp |-> f[i][2],
                           imageUrl |-> ""])] :
        f \in [1 .. n -> LoggedAnalyses \X LoggedAt] }

LoggedWater ==
    {<<>>, <<[id |-> MaxLogged + 1, timestamp |-> FineBoundary - 1,
              amount |-> 250]>>}

InitHistory ==
    /\ realNow = HistoryNow
    /\ \E n \in 0 .. MaxLogged : meals \in LoggedMeals(n)
    /\ waterLogs \in LoggedWater
    /\ goal = DEFAULT_GOAL
    /\ tempGoal = DEFAULT_GOAL
    /\ dayOffset \in {0, MaxOffset}
    /\ dayCount = 1 + dayOffset
    /\ lastRealDateStr = getGMT3DateString(HistoryNow)
    /\ localStorage = SaveEffect(meals, waterLogs, goal, dayOffset, dayCount,
                                 lastRealDateStr)
    /\ renderedWater = todayWater
    /\ history = HistoryInit
    /\ timeZone \in TimeZones
    /\ interval = IntervalMs
    /\ addMeal = AddMealState(FALSE)
    /\ requests = <<>>

NextHistory ==
    \/ \E mode \in {"daily", "weekly", "monthly"} : setViewMode(mode)
    \/ setDateOffset
    \/ History_onDelete

SpecHistory == InitHistory /\ [][NextHistory]_vars

----------------------------------------------------------------------------
(* The estimation service *)

\* What the service answers for a picture that shows no food.
Unknown ==
    [mealName |-> "Unknown", items |-> <<>>, totalCalories |-> 0,
     macronutrients |-> [protein |-> 0, carbs |-> 0, fat |-> 0],
     confidenceScore |-> 0]

Estimates == Analyses \cup {Unknown}

\* What genAI.models.generateContent may do: throw (network or API error),
\* or return a response without text, with a text that is not JSON, or
\* with the JSON text of an estimate.
Outcomes ==
    {[kind |-> "error", text |-> null],
     [kind |-> "response", text |-> null],
     [kind |-> "response", text |-> <<<<"text", "I cannot">>>>]}
        \cup {[kind |-> "response", text |-> <<JSONstringify(a)>>] :
                a \in Estimates}

\* The promise of analyzeMealImage settles: <<"return", analysis>> or
\* <<"throw">> (JSON.parse throws on a text that is not JSON).
analyzeMealImage(outcome) ==
    IF outcome.kind = "error" THEN <<"throw">>
    ELSE IF outcome.text # null /\ outcome.text[1][1] = "json"
         THEN <<"return", JSONparse(outcome.text[1])>>
         ELSE <<"throw">>

analyzeMealText(outcome) ==
    IF outcome.kind = "error" THEN <<"throw">>
    ELSE IF outcome.text # null /\ outcome.text[1][1] = "json"
         THEN <<"return", JSONparse(outcome.text[1])>>
         ELSE <<"throw">>

----------------------------------------------------------------------------
(* The AddMeal component *)

\* The state of App.
app == <<realNow, meals, waterLogs, goal, tempGoal, dayOffset, dayCount,
         lastRealDateStr, localStorage, renderedWater>>

\* Pictures the user may take and descriptions the user may type.
Pictures == {"data:image/jpeg;base64,AAAA"}

Descriptions == {"", " ", "2 eggs"}

\* String.prototype.trim()
trim(text) == IF text = " " THEN "" ELSE text

\* The sequence s without its i-th element.
Without(s, i) == SubSeq(s, 1, i - 1) \o SubSeq(s, i + 1, Len(s))

\* Dashboard's onAddMeal and the buttons of the navigation bar:
\* setAddMealInitialMode(...); setCurrentView(AppView.ADD_MEAL).
openAddMeal(initialMode) ==
    /\ ~addMeal.mounted
    /\ setCurrentView
    /\ addMeal' = [AddMealState(TRUE) EXCEPT !.mode = initialMode]
    /\ UNCHANGED <<history, timeZone, interval, requests>>

\* onCancel: AddMeal is unmounted; what its requests answer later reaches
\* no state.
onCancel ==
    /\ addMeal.mounted
    /\ setCurrentView
    /\ addMeal' = AddMealState(FALSE)
    /\ requests' = <<>>
    /\ UNCHANGED <<history, timeZone, interval>>

setMode(mode) ==
    /\ addMeal.mounted
    /\ addMeal.imagePreview = null /\ addMeal.analysis = null
    /\ addMeal' = [addMeal EXCEPT !.mode = mode]
    /\ UNCHANGED <<app, history, timeZone, interval, requests>>

\* The capture button and the gallery input: a FileReader starts.
handleFileChange(file) ==
    /\ addMeal.mounted
    /\ addMeal.mode = "camera" /\ addMeal.imagePreview = null
    /\ Len(requests) < MaxPending
    /\ requests' = Append(requests, [kind |-> "read", input |-> file])
    /\ UNCHANGED <<app, history, timeZone, interval, addMeal>>

\* reader.onloadend: setImagePreview(result); analyzeImage(result), up to
\* its await.
onloadend(i) ==
    /\ requests[i].kind = "read"
    /\ addMeal' = [addMeal EXCEPT !.imagePreview = <<requests[i].input>>,
                                  !.isAnalyzing = TRUE,
                                  !.analysis = null]
    /\ requests' = [requests EXCEPT ![i].kind = "image"]
    /\ UNCHANGED <<app, history, timeZone, interval>>

setTextInput(text) ==
    /\ addMeal.mounted
    /\ addMeal.mode = "text" /\ addMeal.analysis = null
    /\ addMeal' = [addMeal EXCEPT !.textInput = text]
    /\ UNCHANGED <<app, history, timeZone, interval, requests>>

\* The "Calculate Calories" button, up to the await.
handleTextAnalyze ==
    /\ addMeal.mounted
    /\ addMeal.mode = "text" /\ addMeal.analysis = null
    /\ trim(addMeal.textInput) # "" /\ ~addMeal.isAnalyzing
    /\ Len(requests) < MaxPending
    /\ addMeal' = [addMeal EXCEPT !.isAnalyzing = TRUE, !.analysis = null]
    /\ requests' = Append(requests,
                          [kind |-> "text", input |-> addMeal.textInput])
    /\ UNCHANGED <<app, history, timeZone, interval>>

\* Variant: the catch block shows an empty estimate instead of none.
settle_fallback(i, outcome) ==
    /\ requests[i].kind \in {"image", "text"}
    /\ LET result == IF requests[i].kind = "image"
                     THEN analyzeMealImage(outcome)
                     ELSE analyzeMealText(outcome)
       IN  addMeal' = IF result[1] = "return"
                      THEN [addMeal EXCEPT !.analysis = <<result[2]>>,
                                           !.isAnalyzing = FALSE]
                      ELSE [addMeal EXCEPT !.analysis = <<Unknown>>,
                                           !.isAnalyzing = FALSE]
    /\ requests' = Without(requests, i)
    /\ UNCHANGED <<app, history, timeZone, interval>>

\* The rest of analyzeImage and handleTextAnalyze, after the await: the
\* i-th request is answered with `outcome`.
settle(i, outcome) ==
    /\ requests[i].kind \in {"image", "text"}
    /\ LET result == IF requests[i].kind = "image"
                     THEN analyzeMealImage(outcome)
                     ELSE analyzeMealText(outcome)
       IN  addMeal' = IF result[1] = "return"
                      THEN [addMeal EXCEPT !.analysis = <<result[2]>>,
                                           !.isAnalyzing = FALSE]
                      ELSE [addMeal EXCEPT !.isAnalyzing = FALSE]
    /\ requests' = Without(requests, i)
    /\ UNCHANGED <<app, history, timeZone, interval>>

reset ==
    /\ addMeal.mounted
    /\ addMeal.imagePreview # null \/ addMeal.analysis # null
    /\ addMeal' = [addMeal EXCEPT !.imagePreview = null, !.analysis = null,
                                  !.textInput = ""]
    /\ UNCHANGED <<app, history, timeZone, interval, requests>>

\* The "Save Meal to Log" button is rendered.
SaveOffered ==
    /\ addMeal.mounted
    /\ ~addMeal.isAnalyzing /\ addMeal.analysis # null
    /\ addMeal.mode = "text" \/ addMeal.imagePreview # null

\* onSave(analysis, imagePreview || ''): handleSaveMeal, whose
\* setCurrentView(AppView.DASHBOARD) unmounts AddMeal.
AddMeal_onSave ==
    /\ SaveOffered
    /\ handleSaveMeal(addMeal.analysis[1],
                      IF addMeal.imagePreview = null
                      THEN "" ELSE addMeal.imagePreview[1])
    /\ addMeal' = AddMealState(FALSE)
    /\ requests' = <<>>
    /\ UNCHANGED <<history, timeZone, interval>>

NextAddMeal ==
    \/ \E initialMode \in {"camera", "text"} : openAddMeal(initialMode)
    \/ onCancel
    \/ \E mode \in {"camera", "text"} : setMode(mode)
    \/ \E file \in Pictures : handleFileChange(file)
    \/ \E i \in 1 .. Len(requests) : onloadend(i)
    \/ \E text \in Descriptions : setTextInput(text)
    \/ handleTextAnalyze
    \/ \E i \in 1 .. Len(requests), outcome \in Outcomes : settle(i, outcome)
    \/ reset
    \/ AddMeal_onSave
    \/ \E id \in Ids : handleDeleteMeal(id) /\ UNCHANGED ui

SpecAddMeal == Init /\ [][NextAddMeal]_vars

----------------------------------------------------------------------------
(* The app started over a storage in which any of the six keys may be      *)
(* absent (nothing saved yet, or saved by a version that had fewer keys).  *)

\* A meal and a water entry of the day before StartNow, as saved earlier.
SavedMeal ==
    Spread(CHOOSE a \in Analyses : TRUE,
           [id |-> 1, timestamp |-> StartNow - msPerDay, imageUrl |-> ""])

SavedWater == [id |-> 2, timestamp |-> StartNow - msPerDay, amount |-> 250]

\* What each key may hold: nothing, or a value saved earlier.  A saved
\* goal may be a whole record or one with fewer fields.
StoredItems ==
    [snapcalorie_meals |-> {<<>>, <<JSONstringify(<<SavedMeal>>)>>},
     snapcalorie_water |-> {<<>>, <<JSONstringify(<<SavedWater>>)>>},
     snapcalorie_goal |->
         {<<>>,
          <<JSONstringify([DEFAULT_GOAL EXCEPT !.dailyCalories = 1800])>>,
          <<JSONstringify([dailyCalories |-> 1800])>>},
     snapcalorie_day_offset |-> {<<>>, <<String(MaxOffset)>>},
     snapcalorie_day_count |-> {<<>>, <<String(MaxOffset + 1)>>},
     snapcalorie_last_real_date |->
         {<<>>, <<getGMT3DateString(StartNow - msPerDay)>>}]

Storages ==
    [snapcalorie_meals : StoredItems.snapcalorie_meals,
     snapcalorie_water : StoredItems.snapcalorie_water,
     snapcalorie_goal : StoredItems.snapcalorie_goal,
     snapcalorie_day_offset : StoredItems.snapcalorie_day_offset,
     snapcalorie_day_count : StoredItems.snapcalorie_day_count,
     snapcalorie_last_real_date : StoredItems.snapcalorie_last_real_date]

\* The first render, before its effects have run: the useState defaults.
InitLoad ==
    /\ realNow = StartNow
    /\ meals = <<>>
    /\ waterLogs = <<>>
    /\ goal = DEFAULT_GOAL
    /\ tempGoal = DEFAULT_GOAL
    /\ dayOffset = 0
    /\ dayCount = 1
    /\ lastRealDateStr = getGMT3DateString(StartNow)
    /\ localStorage \in Storages
    /\ renderedWater = 0
    /\ UiInit

\* The save effect of the last render has run: no handler or timer
\* callback runs before the effects of the first render.
Saved ==
    localStorage = SaveEffect(meals, waterLogs, goal, dayOffset, dayCount,
                              lastRealDateStr)

NextLoad ==
    \/ Mount /\ UNCHANGED ui
    \/ Saved /\ checkDate /\ UNCHANGED ui
    \/ Saved /\ handleManualEndDay /\ UNCHANGED ui
    \/ Saved /\ AdvanceTime /\ UNCHANGED ui

SpecLoad == InitLoad /\ [][NextLoad]_vars

----------------------------------------------------------------------------
(* Settings: the Stats Calculator and the draft of the goal *)

Genders == {"male", "female"}
GoalTypes == {"lose", "maintain", "gain"}

\* The activity multipliers, in thousandths.
activityMultipliers ==
    [sedentary |-> 1200, light |-> 1375, moderate |-> 1550,
     active |-> 1725, very_active |-> 1900]

ActivityLevels == DOMAIN activityMultipliers

\* Variant: the same constant for both genders.
bmr_sameForAll(g) ==
    (40 * g.currentWeight) + (25 * g.height) - (20 * g.age) + 20

\* bmr of calculateRecommendedCalories for the draft g, in quarters of a
\* unit (6.25 * height is a whole number of quarters).
bmr(g) ==
    (40 * g.currentWeight) + (25 * g.height) - (20 * g.age)
        + (IF g.gender = "male" THEN 20 ELSE 0 - 644)

\* tdee = bmr * activityMultipliers[activityLevel], in 1/4000 of a unit.
tdee(g) == bmr(g) * activityMultipliers[g.activityLevel]

\* recommendedCalories before rounding, in 1/4000 of a unit.
recommendedCalories(g) ==
    tdee(g) + (IF g.goalType = "lose" THEN 0 - 500 * 4000
               ELSE IF g.goalType = "gain" THEN 500 * 4000 ELSE 0)

finalCalories(g) == MathRound(recommendedCalories(g), 4000)

\* Auto-Calculate.
calculateRecommendedCalories ==
    /\ tempGoal' = [tempGoal EXCEPT !.dailyCalories = finalCalories(tempGoal)]
    /\ UNCHANGED <<realNow, meals, waterLogs, goal, dayOffset, dayCount,
                   lastRealDateStr>>
    /\ Rerender

\* What the user types or selects in the fields of the settings view.
SettingsEdits ==
    ({"gender"} \X Genders)
        \cup ({"height"} \X {170, 165})
        \cup ({"goalType"} \X {"maintain", "lose"})
        \cup ({"dailyWater"} \X {2500, 3000})

NextSettings ==
    \/ \E e \in SettingsEdits : setTempGoal(e[1], e[2]) /\ UNCHANGED ui
    \/ calculateRecommendedCalories /\ UNCHANGED ui
    \/ saveSettings /\ UNCHANGED ui

SpecSettings == Init /\ [][NextSettings]_vars

\* The drafts the calculator is run on.
Profiles ==
    {Spread(DEFAULT_GOAL, p) :
        p \in [currentWeight : {70, 81}, height : {170, 165},
               age : {30, 25}, gender : Genders,
               activityLevel : ActivityLevels, goalType : GoalTypes]}

InitCalculator ==
    /\ realNow = StartNow
    /\ meals = <<>>
    /\ waterLogs = <<>>
    /\ goal = DEFAULT_GOAL
    /\ tempGoal \in Profiles
    /\ dayOffset = 0
    /\ dayCount = 1
    /\ lastRealDateStr = getGMT3DateString(StartNow)
    /\ localStorage = SaveEffect(meals, waterLogs, goal, dayOffset, dayCount,
                                 lastRealDateStr)
    /\ renderedWater = 0
    /\ UiInit

NextCalculator ==
    \/ calculateRecommendedCalories /\ UNCHANGED ui
    \/ saveSettings /\ UNCHANGED ui

SpecCalculator == InitCalculator /\ [][NextCalculator]_vars

----------------------------------------------------------------------------
(* The interval alive over the civil-day boundaries: checkDate runs at each
   boundary, before anything else does *)

\* A civil day passes with the app open; the callback of the interval that
\* runs at the boundary is part of the step.
TickAtBoundary ==
    /\ realNow + TimeStep <= DecayEnd
    /\ realNow' = realNow + TimeStep
    /\ LET r == checkDateResult(dayOffset, dayCount, lastRealDateStr,
                                realNow')
       IN  /\ dayOffset' = r.dayOffset
           /\ dayCount' = r.dayCount
           /\ lastRealDateStr' = r.lastRealDateStr
    /\ UNCHANGED <<meals, waterLogs, goal, tempGoal>>
    /\ Rerender

NextLockstep ==
    \/ TickAtBoundary /\ UNCHANGED ui
    \/ handleManualEndDay /\ UNCHANGED ui
    \/ \E a \in Analyses, u \in ImageUrls :
          handleSaveMeal(a, u) /\ UNCHANGED ui
    \/ \E id \in Ids : handleDeleteMeal(id) /\ UNCHANGED ui
    \/ \E amount \in WaterAmounts : handleAddWater(amount) /\ UNCHANGED ui

SpecLockstep == Init /\ [][NextLockstep]_vars

----------------------------------------------------------------------------
(* The one-second interval and its effect, half a period at a time *)

HalfInterval == IntervalMs \div 2

LiveStart == FineBoundary - IntervalMs

\* Every pending advance can put the callback off by one period.
LiveEnd == FineBoundary + (MaxOffset + 2) * IntervalMs

\* The state of the components that the timer does not touch.
views == <<history, timeZone, addMeal, requests>>

InitLive ==
    /\ realNow = LiveStart
    /\ meals = <<>>
    /\ waterLogs = <<>>
    /\ goal = DEFAULT_GOAL
    /\ tempGoal = DEFAULT_GOAL
    /\ dayOffset = 0
    /\ dayCount = 1
    /\ lastRealDateStr = getGMT3DateString(LiveStart)
    /\ localStorage = SaveEffect(meals, waterLogs, goal, dayOffset, dayCount,
                                 lastRealDateStr)
    /\ renderedWater = 0
    /\ UiInit

\* Half a period passes; the callback is not due before it has passed.
Elapse ==
    /\ interval > 0
    /\ realNow + HalfInterval <= LiveEnd
    /\ realNow' = realNow + HalfInterval
    /\ interval' = interval - HalfInterval
    /\ UNCHANGED <<meals, waterLogs, goal, tempGoal, dayOffset, dayCount,
                   lastRealDateStr, localStorage, renderedWater>>

\* The effect with dependencies [lastRealDateStr, dayOffset]: when one of
\* them changes, its cleanup clears the interval and a new one is set.
useEffect_interval ==
    interval' = IF <<lastRealDateStr', dayOffset'>> # <<lastRealDateStr, dayOffset>>
                THEN IntervalMs
                ELSE interval

\* Variant: the callback does nothing while the user is ahead.
Fire_unlessAhead ==
    /\ interval = 0
    /\ IF dayOffset > 0
       THEN UNCHANGED app
       ELSE checkDate
    /\ interval' = IntervalMs

\* The callback of the interval is due and runs; the interval repeats.
Fire ==
    /\ interval = 0
    /\ checkDate
    /\ interval' = IntervalMs

NextLive ==
    \/ Elapse /\ UNCHANGED views
    \/ Fire /\ UNCHANGED views
    \/ handleManualEndDay /\ useEffect_interval /\ UNCHANGED views
    \/ resetDayCounter /\ useEffect_interval /\ UNCHANGED views
    \/ \E e \in TempGoalEdits :
          setTempGoal(e[1], e[2]) /\ useEffect_interval /\ UNCHANGED views

\* Time passes, and a callback that is due runs.
SpecLive ==
    InitLive /\ [][NextLive]_vars /\ WF_vars(Elapse /\ UNCHANGED views)
        /\ WF_vars(Fire /\ UNCHANGED views)

----------------------------------------------------------------------------
(* The water buttons around a civil-day boundary, a millisecond at a time *)

MaxWater == 2

NextWater ==
    \/ TickMs /\ UNCHANGED ui
    \/ checkDate /\ UNCHANGED ui
    \/ \E amount \in WaterAmounts :
          handleAddWaterWithin(MaxWater, amount) /\ UNCHANGED ui

SpecWater == InitFine /\ [][NextWater]_vars

----------------------------------------------------------------------------
(* Properties *)

\* The real civil day of `now` is the day after the day with key `l`.
NextDayAfter(l, now) ==
    /\ getGMT3DateString(now) # l
    /\ getGMT3DateString(now - msPerDay) = l

\* The number of real civil-day boundaries between the day with key
\* lastRealDateStr and the real day of realNow.
MissedBoundaries ==
    CHOOSE k \in 0 .. (MaxSteps + DecayOffset + 1) :
        getGMT3DateString(realNow - k * msPerDay) = lastRealDateStr

\* The number of civil days from the first day to the day lastRealDateStr.
DaysReconciled ==
    CHOOSE j \in 0 .. (MaxSteps + DecayOffset + 1) :
        getGMT3DateString(StartNow + j * msPerDay) = lastRealDateStr

\* C1: with dayOffset = k and lastRealDateStr = D, checks made at each of
\* the boundaries D+1 .. D+k take dayOffset down by one each and leave
\* dayCount alone: after j <= k of them dayOffset = k - j and dayCount is
\* what it was before the first, so after k of them dayOffset = 0.
C1_OffsetDecay ==
    DaysReconciled <= DecayOffset =>
        /\ dayOffset = DecayOffset - DaysReconciled
        /\ dayCount = 1 + DecayOffset

C1_Witness ==
    /\ lastRealDateStr = getGMT3DateString(StartNow + DecayOffset * msPerDay)
    /\ dayOffset = 0
    /\ dayCount = 1 + DecayOffset

\* C2: a check on real day D+1 with dayOffset = 0, dayCount = N and
\* lastRealDateStr = D leaves dayCount = N+1, dayOffset = 0 and
\* lastRealDateStr = D+1.
C2_NaturalRollover ==
    [][(checkDate /\ dayOffset = 0 /\ NextDayAfter(lastRealDateStr, realNow))
         => /\ dayCount' = dayCount + 1
            /\ dayOffset' = 0
            /\ lastRealDateStr' = getGMT3DateString(realNow)]_vars

C2_Witness ==
    /\ dayOffset = 0
    /\ dayCount = 2
    /\ lastRealDateStr = getGMT3DateString(StartNow + msPerDay)
    /\ getGMT3DateString(realNow) = lastRealDateStr

\* C3: handleManualEndDay adds one to dayOffset and one to dayCount and
\* leaves lastRealDateStr, the meals, the water logs and the goal as they
\* were.
C3_ManualAdvance ==
    [][handleManualEndDay
         => /\ dayOffset' = dayOffset + 1
            /\ dayCount' = dayCount + 1
            /\ UNCHANGED <<lastRealDateStr, meals, waterLogs, goal>>]_vars

C3_Witness ==
    /\ dayOffset = 2
    /\ dayCount = 3
    /\ lastRealDateStr = getGMT3DateString(StartNow)
    /\ Len(meals) + Len(waterLogs) > 0

\* C4: resetDayCounter leaves dayOffset = 0, dayCount = 1 and
\* lastRealDateStr the key of the real day, and changes neither the meals,
\* the water logs nor the goal.
C4_Reset ==
    [][resetDayCounter
         => /\ dayOffset' = 0
            /\ dayCount' = 1
            /\ lastRealDateStr' = getGMT3DateString(realNow)
            /\ UNCHANGED <<meals, waterLogs, goal, tempGoal>>]_vars

C4_Witness ==
    /\ dayOffset = 0
    /\ dayCount = 1
    /\ lastRealDateStr # getGMT3DateString(StartNow)
    /\ lastRealDateStr = getGMT3DateString(realNow)
    /\ Len(meals) + Len(waterLogs) > 0

\* C5: a check made while the key of the real day equals lastRealDateStr
\* changes nothing, and a check repeated at the same real time leaves the
\* state the first check left.
C5_ReconcileIdempotent ==
    [][checkDate
         => /\ getGMT3DateString(realNow) = lastRealDateStr => UNCHANGED vars
            /\ checkDateResult(dayOffset', dayCount', lastRealDateStr',
                               realNow')
                 = [dayOffset |-> dayOffset', dayCount |-> dayCount',
                    lastRealDateStr |-> lastRealDateStr']]_vars

C5_Witness ==
    /\ dayOffset = 1
    /\ dayCount = 3
    /\ lastRealDateStr = getGMT3DateString(StartNow + msPerDay)
    /\ getGMT3DateString(realNow) = lastRealDateStr

\* C6: when k >= 2 real civil-day boundaries have passed since
\* lastRealDateStr, the check that catches up leaves
\* dayOffset = max(0, dayOffset - k) and
\* dayCount = dayCount + max(0, k - dayOffset).
C6_MultiDayGap ==
    [][(checkDate /\ MissedBoundaries >= 2)
         => /\ lastRealDateStr' = getGMT3DateString(realNow)
            /\ dayOffset' = Max(0, dayOffset - MissedBoundaries)
            /\ dayCount' = dayCount + Max(0, MissedBoundaries - dayOffset)]_vars

\* C7: dayOffset is never negative.
C7_OffsetNonNegative == dayOffset \in Nat

C7_Witness ==
    /\ dayOffset = 0
    /\ dayCount = 3
    /\ lastRealDateStr = getGMT3DateString(StartNow + 2 * msPerDay)

\* C8: a new meal or water entry carries the timestamp
\* realNow + dayOffset * 86,400,000, its day key is the key of the current
\* logical day, and it is among the entries of today.
C8_StampedWithVirtualNow ==
    [][/\ (\E a \in Analyses, u \in ImageUrls : handleSaveMeal(a, u))
            => /\ Len(meals') = Len(meals) + 1
               /\ meals'[1].timestamp = realNow + dayOffset * 86400000
               /\ getGMT3DateString(meals'[1].timestamp)
                    = getGMT3DateString(realNow' + dayOffset' * 86400000)
               /\ MealsOn(meals',
                          getGMT3DateString(realNow' + dayOffset' * 86400000))
                    = <<meals'[1]>> \o todayMeals
       /\ \A amount \in WaterAmounts : handleAddWater(amount)
            => /\ Len(waterLogs') = Len(waterLogs) + 1
               /\ waterLogs'[Len(waterLogs')].timestamp
                    = realNow + dayOffset * 86400000
               /\ getGMT3DateString(waterLogs'[Len(waterLogs')].timestamp)
                    = getGMT3DateString(realNow' + dayOffset' * 86400000)
               /\ WaterOn(waterLogs',
                          getGMT3DateString(realNow' + dayOffset' * 86400000))
                    = todayWater + amount]_vars

C8_Witness ==
    /\ dayOffset = 2
    /\ Len(waterLogs) = 1
    /\ waterLogs[1].timestamp = StartNow + TimeStep + 2 * 86400000
    /\ todayWater = waterLogs[1].amount

\* C9: lastRealDateStr changes only in a check that sees another real day
\* key, or in reset; manual advance, logging or deleting a meal, adding
\* water, and editing or saving the goal leave it as it was.
C9_LastRealDateFrame ==
    [][/\ lastRealDateStr' # lastRealDateStr
            => \/ checkDate /\ getGMT3DateString(realNow) # lastRealDateStr
               \/ resetDayCounter
       /\ ( \/ handleManualEndDay
            \/ \E a \in Analyses, u \in ImageUrls : handleSaveMeal(a, u)
            \/ \E id \in Ids : handleDeleteMeal(id)
            \/ \E amount \in WaterAmounts : handleAddWater(amount)
            \/ \E e \in TempGoalEdits : setTempGoal(e[1], e[2])
            \/ saveSettings )
            => lastRealDateStr' = lastRealDateStr]_vars

C9_Witness ==
    /\ lastRealDateStr = getGMT3DateString(StartNow + msPerDay)
    /\ getGMT3DateString(realNow) # lastRealDateStr
    /\ dayOffset = 2
    /\ dayCount = 4
    /\ goal # DEFAULT_GOAL

\* C10: dayCount is at least 1, no step other than reset makes it smaller,
\* and reset makes it 1.
C10_DayCountMonotonic ==
    /\ [](dayCount \in Nat /\ dayCount >= 1)
    /\ [][\/ dayCount' >= dayCount
          \/ resetDayCounter /\ dayCount' = 1]_vars

C10_Witness ==
    /\ dayCount = 4
    /\ dayOffset = 1
    /\ lastRealDateStr = getGMT3DateString(StartNow + 2 * msPerDay)

----------------------------------------------------------------------------
(* The real next midnight and the day keys *)

\* t is a civil-day boundary: 00:00:00.000 at UTC+3.
DayBoundary(t) == (t + 3 * 60 * 60 * 1000) % (24 * 60 * 60 * 1000) = 0

\* The number of the civil day at UTC+3 that holds t.
DayIndex(t) == (t + 3 * 60 * 60 * 1000) \div (24 * 60 * 60 * 1000)

\* The timestamps at hand in a state: the real and the virtual time and
\* the timestamps of the logged entries.
Stamps ==
    {realNow, getVirtualNow}
        \cup {meals[i].timestamp : i \in 1 .. Len(meals)}
        \cup {waterLogs[i].timestamp : i \in 1 .. Len(waterLogs)}

\* C11: getRealGMT3NextMidnight returns the least real civil-day boundary
\* strictly after the real time: it is a boundary, it lies more than 0 and
\* at most 86,400,000 ms ahead of realNow, whatever dayOffset is.
C11_NextMidnight ==
    LET r == getRealGMT3NextMidnight
    IN  /\ DayBoundary(r)
        /\ 0 < r - realNow
        /\ r - realNow <= 86400000

\* The function has run exactly on a boundary, with manual advances pending.
C11_Witness ==
    /\ DayBoundary(realNow)
    /\ dayOffset > 0
    /\ getRealGMT3NextMidnight = realNow + 86400000

\* C12: two timestamps get the same day key exactly when they lie in the
\* same civil day at UTC+3; the key changes at every boundary and nowhere
\* else; History's copy of the function gives the same keys.
C12_SameKeySameDay ==
    /\ \A t1, t2 \in Stamps :
          getGMT3DateString(t1) = getGMT3DateString(t2)
              <=> DayIndex(t1) = DayIndex(t2)
    /\ \A t \in Stamps :
          /\ DayBoundary(t)
                => getGMT3DateString(t - 1) # getGMT3DateString(t)
          /\ ~DayBoundary(t + 1)
                => getGMT3DateString(t) = getGMT3DateString(t + 1)
          /\ History_getGMT3DateString(t) = getGMT3DateString(t)

\* A meal was logged in the last millisecond of a day and the real time is
\* now the boundary that follows it.
C12_Witness ==
    /\ DayBoundary(realNow)
    /\ Len(meals) > 0
    /\ meals[1].timestamp = realNow - 1

\* Lexicographic order of two texts given as character codes (the order of
\* JavaScript strings).
RECURSIVE TextLeq(_, _)
TextLeq(a, b) ==
    IF Len(a) = 0 THEN TRUE
    ELSE IF Len(b) = 0 THEN FALSE
    ELSE IF Head(a) # Head(b) THEN Head(a) < Head(b)
    ELSE TextLeq(Tail(a), Tail(b))

\* C13: bucketing is monotonic: a later timestamp never gets a smaller day
\* key, in the order of the keys' texts.
C13_KeysMonotonic ==
    \A t1, t2 \in Stamps :
        t1 <= t2
            => TextLeq(DateText(getGMT3DateString(t1)),
                       DateText(getGMT3DateString(t2)))

\* A meal of the 9th is in the log while the virtual day is the 10th or a
\* later one.
C13_Witness ==
    /\ Len(meals) > 0
    /\ getGMT3DateString(meals[1].timestamp)[3] = 9
    /\ currentVirtualDateStr[3] >= 10

----------------------------------------------------------------------------
(* Aggregation per day, the average and the days of the History views *)

\* The sum of f over the set S of its arguments.
RECURSIVE SumFn(_, _)
SumFn(f, S) ==
    IF S = {} THEN 0
    ELSE LET x == CHOOSE x \in S : TRUE
         IN  f[x] + SumFn(f, S \ {x})

\* The meals and the water entries whose timestamp falls on the day d.
MealsOfDay(d) ==
    {i \in 1 .. Len(meals) : getGMT3DateString(meals[i].timestamp) = d}

WaterOfDay(d) ==
    {i \in 1 .. Len(waterLogs) :
        getGMT3DateString(waterLogs[i].timestamp) = d}

DayEnergy(d) ==
    SumFn([i \in 1 .. Len(meals) |-> meals[i].totalCalories], MealsOfDay(d))

DayTotals(d) ==
    [calories |-> DayEnergy(d),
     protein  |-> SumFn([i \in 1 .. Len(meals) |->
                            meals[i].macronutrients.protein], MealsOfDay(d)),
     carbs    |-> SumFn([i \in 1 .. Len(meals) |->
                            meals[i].macronutrients.carbs], MealsOfDay(d)),
     fat      |-> SumFn([i \in 1 .. Len(meals) |->
                            meals[i].macronutrients.fat], MealsOfDay(d)),
     water    |-> SumFn([i \in 1 .. Len(waterLogs) |-> waterLogs[i].amount],
                        WaterOfDay(d))]

\* The days at hand in a state: those of the timestamps, the current
\* logical day and the day the daily view shows.
DayKeys ==
    {getGMT3DateString(t) : t \in Stamps}
        \cup {currentVirtualDateStr, currentDateStr}

\* C14: for every day, the totals History reports are the sums over exactly
\* the meals and water entries whose timestamp falls on that day (all zero
\* for a day without entries), and the Dashboard's totals of the current
\* logical day are the same sums.
C14_DayTotals ==
    /\ \A d \in DayKeys : StatsAt(dailyStats, d) = DayTotals(d)
    /\ totalCaloriesConsumed = DayTotals(currentVirtualDateStr).calories
    /\ macros.protein = DayTotals(currentVirtualDateStr).protein
    /\ macros.carbs = DayTotals(currentVirtualDateStr).carbs
    /\ macros.fat = DayTotals(currentVirtualDateStr).fat
    /\ todayWater = DayTotals(currentVirtualDateStr).water

\* Two meals of one day, water on a day without meals, and a current
\* logical day, reached by manual advances, that has no entry.
C14_Witness ==
    /\ Len(meals) = 2
    /\ getGMT3DateString(meals[1].timestamp)
          = getGMT3DateString(meals[2].timestamp)
    /\ Len(waterLogs) = 1
    /\ MealsOfDay(getGMT3DateString(waterLogs[1].timestamp)) = {}
    /\ dayOffset > 0
    /\ DayTotals(currentVirtualDateStr) = ZeroStats
    /\ history.viewMode = "daily"
    /\ history.dateOffset < 0

\* C15: the average of the weekly and monthly views is the sum of the
\* energy of the chart's days that have energy above 0, divided by the
\* number of those days and rounded to the nearest integer, and 0 when no
\* day of the chart has energy.
C15_Average ==
    history.viewMode \in {"weekly", "monthly"} =>
        LET chart   == renderChartView(ChartDays(history.viewMode))
            days    == {chart.data[i] : i \in 1 .. Len(chart.data)}
            tracked == {d \in days : DayEnergy(d) > 0}
            total   == SumFn([d \in tracked |-> DayEnergy(d)], tracked)
            n       == Cardinality(tracked)
        IN  IF n = 0
            THEN chart.avgCals = 0
            ELSE /\ 2 * n * chart.avgCals - n <= 2 * total
                 /\ 2 * total < 2 * n * chart.avgCals + n

\* The weekly view over two days with 300 and 455 kcal: the mean 377.5 is
\* shown as 378.
C15_Witness ==
    /\ history.viewMode = "weekly"
    /\ Len(meals) = 2
    /\ renderChartView(7).avgCals = 378

\* The key of the day that lies n days before the day with key `key`.
DaysBefore(key, n) == CivilFromDays(DaysFromCivil(key) - n)

\* C16: the weekly and monthly views show the N consecutive days that end
\* at the current logical day, and the daily view at dateOffset = -j shows
\* the day j days before it, in every host time zone.
C16_ConsecutiveDays ==
    IF history.viewMode = "daily"
    THEN currentDateStr
             = DaysBefore(currentSystemDateStr, 0 - history.dateOffset)
    ELSE LET N == ChartDays(history.viewMode)
         IN  renderChartView(N).data
                 = [i \in 1 .. N |-> DaysBefore(currentSystemDateStr, N - i)]

----------------------------------------------------------------------------
(* Failing estimations *)

\* The service call of the i-th request throws when answered with outcome.
Throws(i, outcome) ==
    IF requests[i].kind = "image"
    THEN analyzeMealImage(outcome)[1] = "throw"
    ELSE analyzeMealText(outcome)[1] = "throw"

\* C17: a failing estimation (the service throws: error, no text, text that
\* is not JSON) adds no meal, leaves the logs, the clock, the goal and what
\* is stored unchanged and sets no analysis; and the Save button only ever
\* logs an estimate that the service returned.
C17_FailureLeavesState ==
    [][/\ \A i \in 1 .. Len(requests), outcome \in Outcomes :
            settle(i, outcome) /\ Throws(i, outcome)
                => /\ UNCHANGED <<meals, waterLogs, goal, dayOffset,
                                  dayCount, lastRealDateStr, localStorage>>
                   /\ addMeal'.analysis = addMeal.analysis
                   /\ ~addMeal'.isAnalyzing
       /\ AddMeal_onSave
            => \E a \in Estimates :
                   /\ addMeal.analysis = <<a>>
                   /\ \A field \in DOMAIN a : meals'[1][field] = a[field]
      ]_vars

\* The screen after a failed estimation of a picture: no analysis, the
\* picture still shown, nothing under way, and no meal in the log.
C17_Witness ==
    /\ addMeal.mounted /\ addMeal.mode = "camera"
    /\ addMeal.imagePreview # null /\ addMeal.analysis = null
    /\ ~addMeal.isAnalyzing /\ requests = <<>>
    /\ meals = <<>>

\* C18: a zero-energy 'Unknown' estimate (no food in the input) is handled
\* as a failed estimation: it is never offered for saving.
C18_NonFoodNotSaved ==
    SaveOffered => addMeal.analysis[1] # Unknown

\* An estimation has failed and its input is still held: the picture in
\* camera mode, the description in text mode.
FailureShown ==
    /\ addMeal.mounted
    /\ ~addMeal.isAnalyzing /\ addMeal.analysis = null /\ requests = <<>>
    /\ IF addMeal.mode = "camera"
       THEN addMeal.imagePreview # null
       ELSE trim(addMeal.textInput) # ""

\* A step of AddMeal that starts an estimation and keeps the input held.
Retry ==
    /\ NextAddMeal
    /\ addMeal'.isAnalyzing
    /\ addMeal'.imagePreview = addMeal.imagePreview
    /\ addMeal'.textInput = addMeal.textInput

\* C19: after a failed estimation the input is still held and the user can
\* run the estimation again on it, without capturing or typing it again.
C19_RetryOffered == FailureShown => ENABLED Retry

----------------------------------------------------------------------------
(* Restart *)

\* C20: closing and starting the app again restores exactly the meals, the
\* water logs, the goal and the clock triple that were saved, and once the
\* start has settled the stored values are those saved before it.
C20_RestartRoundTrip ==
    [][Mount => UNCHANGED <<meals, waterLogs, goal, dayOffset, dayCount,
                            lastRealDateStr, localStorage>>]_vars

\* A state to restart from and to come back to: an entry in the log,
\* manual advances pending, a goal that is not the default one, all stored.
C20_Witness ==
    /\ Len(meals) + Len(waterLogs) > 0
    /\ dayOffset > 0
    /\ dayCount > 1
    /\ goal # DEFAULT_GOAL
    /\ tempGoal = goal
    /\ localStorage = SaveEffect(meals, waterLogs, goal, dayOffset, dayCount,
                                 lastRealDateStr)
    /\ LoadMeals(localStorage) = meals
    /\ LoadDayOffset(localStorage) = dayOffset

----------------------------------------------------------------------------
(* First run *)

\* C21: a key that is absent when the app starts leaves its piece of state
\* at the default, and with nothing saved the app starts with dayOffset 0,
\* dayCount 1, lastRealDateStr the real day key, empty logs and the default
\* goal.
C21_LoadAbsent ==
    [][Mount =>
        /\ localStorage.snapcalorie_meals = <<>> => meals' = <<>>
        /\ localStorage.snapcalorie_water = <<>> => waterLogs' = <<>>
        /\ localStorage.snapcalorie_goal = <<>>
              => goal' = DEFAULT_GOAL /\ tempGoal' = DEFAULT_GOAL
        /\ localStorage.snapcalorie_day_offset = <<>> => dayOffset' = 0
        /\ localStorage.snapcalorie_day_count = <<>> => dayCount' = 1
        /\ localStorage.snapcalorie_last_real_date = <<>>
              => lastRealDateStr' = getGMT3DateString(realNow)
      ]_vars

\* The app has started over a storage that held the meals and the day
\* offset but neither the day count nor the goal.
C21_Witness ==
    /\ Saved
    /\ meals = <<SavedMeal>>
    /\ dayOffset = MaxOffset
    /\ dayCount = 1
    /\ goal = DEFAULT_GOAL
    /\ waterLogs = <<>>

----------------------------------------------------------------------------
(* Frames of the logs and of the goal *)

\* The elements of a sequence.
Range(s) == {s[i] : i \in 1 .. Len(s)}

PersistedGoal(st) == JSONparse(st.snapcalorie_goal[1])

\* C23: an edit of a settings field and Auto-Calculate change the draft
\* only; the goal the views get and the stored goal change in saveSettings
\* alone, which makes both the whole draft.
C23_GoalReplacedOnSave ==
    [][/\ (goal' # goal \/ PersistedGoal(localStorage') # PersistedGoal(localStorage))
            => saveSettings
       /\ saveSettings
            => /\ goal' = tempGoal
               /\ PersistedGoal(localStorage') = tempGoal
               /\ tempGoal' = tempGoal
       /\ (\/ calculateRecommendedCalories
           \/ \E e \in SettingsEdits : setTempGoal(e[1], e[2]))
            => /\ goal' = goal
               /\ localStorage' = localStorage
               /\ UNCHANGED <<meals, waterLogs, dayOffset, dayCount,
                              lastRealDateStr>>
      ]_vars

\* A goal was saved with two fields edited, and the draft has since been
\* edited and recalculated without the goal following.
C23_Witness ==
    /\ goal.gender = "female"
    /\ goal.dailyWater = 3000
    /\ PersistedGoal(localStorage) = goal
    /\ tempGoal.gender = "male"
    /\ tempGoal.dailyCalories = finalCalories(tempGoal)
    /\ tempGoal.dailyCalories # goal.dailyCalories

\* The value of the specification's formula before rounding, in 1/4000 of
\* a unit: (10*weight + 6.25*height - 5*age + s) * m + d.
GoalFormula(g) ==
    LET s == IF g.gender = "male" THEN 5 ELSE 0 - 161
        m == CASE g.activityLevel = "sedentary" -> 1200
               [] g.activityLevel = "light" -> 1375
               [] g.activityLevel = "moderate" -> 1550
               [] g.activityLevel = "active" -> 1725
               [] g.activityLevel = "very_active" -> 1900
        d == CASE g.goalType = "lose" -> 0 - 500
               [] g.goalType = "maintain" -> 0
               [] g.goalType = "gain" -> 500
    IN  (4 * (10 * g.currentWeight - 5 * g.age + s) + 25 * g.height) * m
            + 4000 * d

\* The draft of the specification's example: weight 70, height 170, age 30,
\* male, moderate, maintain.
IsExample(g) ==
    /\ g.currentWeight = 70
    /\ g.height = 170
    /\ g.age = 30
    /\ g.gender = "male"
    /\ g.activityLevel = "moderate"
    /\ g.goalType = "maintain"

\* r is the whole number nearest to x / 4000, a half going up.
Nearest(r, x) == 0 - 2000 <= x - 4000 * r /\ x - 4000 * r < 2000

\* C24, as stated: Auto-Calculate writes the whole number nearest to the
\* formula's value, and 2467 for the example.
C24_ExampleIs2467 ==
    [][calculateRecommendedCalories
         => /\ Nearest(tempGoal'.dailyCalories, GoalFormula(tempGoal))
            /\ IsExample(tempGoal) => tempGoal'.dailyCalories = 2467
      ]_vars

\* C24, amended: Auto-Calculate writes the whole number nearest to the
\* formula's value (a half goes up); for the example the value before
\* rounding is 1617.5 * 1.55 = 2507.125 and the result is 2507.
C24_GoalArithmetic ==
    [][calculateRecommendedCalories
         => /\ Nearest(tempGoal'.dailyCalories, GoalFormula(tempGoal))
            /\ IsExample(tempGoal)
                 => /\ GoalFormula(tempGoal) = 2507 * 4000 + 500
                    /\ tempGoal'.dailyCalories = 2507
      ]_vars

\* Auto-Calculate has run on the specification's example.
C24_Witness ==
    /\ IsExample(tempGoal)
    /\ tempGoal.dailyCalories = 2507
    /\ goal = DEFAULT_GOAL

LoggedAfterBoundary(e) == (e.timestamp - FineBoundary) % msPerDay <= MaxTicks

\* C27: once the check has processed the boundary, no entry logged after
\* the boundary has a day key later than the logical calendar day; an entry
\* logged between the boundary and the check, while dayOffset > 0, is on the
\* day the user is on.
C27_NoMisBucketing ==
    (realNow >= FineBoundary /\ getGMT3DateString(realNow) = lastRealDateStr)
        => \A i \in 1 .. Len(meals) :
              LoggedAfterBoundary(meals[i])
                  => DayIndex(meals[i].timestamp) <= DayIndex(getVirtualNow)

\* No logged entry is on a day after the civil day that holds t.
NoneAfter(t) ==
    /\ \A i \in 1 .. Len(meals) : DayIndex(meals[i].timestamp) <= DayIndex(t)
    /\ \A i \in 1 .. Len(waterLogs) :
          DayIndex(waterLogs[i].timestamp) <= DayIndex(t)

\* C28: resetDayCounter strands no entry: when no entry is later than the
\* logical calendar day before it, none is later than the logical calendar
\* day after it.
C28_ResetStrandsNothing ==
    [][(resetDayCounter /\ NoneAfter(realNow + dayOffset * msPerDay))
         => NoneAfter(realNow' + dayOffset' * msPerDay)]_vars

\* C29: on every day, the water amounts bucketed to the day sum to 0 or
\* more.
C29_TotalsNonNegative ==
    \A i \in 1 .. Len(waterLogs) :
        WaterOn(waterLogs, getGMT3DateString(waterLogs[i].timestamp)) >= 0

\* The i-th pending request is the latest one and was made for the
\* picture or the text that AddMeal holds now.
ForCurrentInput(i) ==
    /\ i = Len(requests)
    /\ IF requests[i].kind = "image"
       THEN addMeal.imagePreview = <<requests[i].input>>
       ELSE addMeal.mode = "text" /\ addMeal.textInput = requests[i].input

\* C30: the response to a request that is not the latest one, or whose
\* input was reset or replaced since, is not stored as the analysis, and
\* isAnalyzing stays true while a later request is awaiting its response.
C30_ResponsesMatched ==
    [][\A i \in 1 .. Len(requests), outcome \in Outcomes :
          (settle(i, outcome) /\ ~ForCurrentInput(i))
              => /\ addMeal'.analysis = addMeal.analysis
                 /\ i < Len(requests) => addMeal'.isAnalyzing
      ]_vars

====
